---- MODULE Spec2Model ----
(***************************************************************************)
(* State-machine model of src/server.js: the session-scoped registry of    *)
(* MessageSender tasks, the asynchronous execution of each task            *)
(* (init / start / sendMessages / stop / cleanup), the socket.io status    *)
(* rooms, the periodic session sweep and the SIGINT handler.               *)
(*                                                                         *)
(* Node.js runs one callback at a time: every action below is the code     *)
(* that runs between two suspension points (await) of one handler or one   *)
(* coroutine.  Consecutive awaits on the driver between which no program   *)
(* variable is read or written are one step.  A driver call is linearised  *)
(* at its completion and its outcome (success or throw) is chosen there.   *)
(*                                                                         *)
(* resp and io.emitted are outputs: in every state they hold the HTTP      *)
(* response and the status events of the step that led to the state, and   *)
(* are empty after a step that sent none.                                  *)
(***************************************************************************)
EXTENDS Integers, Sequences, FiniteSets, TLC

\* ------------------------------------------------------------- bounds ----
MaxInst == 2      \* MessageSender objects constructed in one run
MaxSent == 4      \* successful sends per task
MaxStops == 2     \* stop() calls of one task suspended in cleanup at once
MaxTimers == 1    \* pending session-removal timeouts per session

Sessions == {"s1", "s2"}          \* req.session.id values
Keys == {"t1"}                    \* threadId / taskId values
Sockets == {"c1"}                 \* socket.io client connections
Inst == 1..MaxInst                \* identities of MessageSender objects

NoSession == "-"                  \* a socket that is not connected
NoKey == ""                       \* a request body without taskId

\* Uploaded message files, each a sequence of characters.
Files ==
  { << >>,
    << " ", "\n", "\n", " " >>,
    << "a" >>,
    << "h", "i", "\n", " ", "t", " ", "\n" >>,
    << "a", "\n", "b", "\n", " ", "c" >> }

VARIABLES
  sessionTasks,   \* DOMAIN = session ids present; [session][key] = object id
  task,           \* the fields of every MessageSender object, and where its
                  \* start() coroutine is suspended (pc)
  nextId,         \* identity the next constructed MessageSender gets
  stops,          \* per object: stop() calls from /stop-task suspended in
                  \* cleanup, at page.close() and at browser.close()
  timers,         \* per session: pending setTimeout removals
  sd,             \* the SIGINT handler
  io,             \* socket.io: the room of each socket, the events the last
                  \* step emitted, the terminal events emitted per object
  resp            \* the HTTP response the last step sent

vars == << sessionTasks, task, nextId, stops, timers, sd, io, resp >>

\* ------------------------------------------------------ pure functions ----
IsSpace(c) == c \in {" ", "\t", "\r", "\n"}

RECURSIVE TrimLeft(_)
TrimLeft(s) ==
  IF s = << >> THEN << >>
  ELSE IF IsSpace(Head(s)) THEN TrimLeft(Tail(s)) ELSE s

RECURSIVE TrimRight(_)
TrimRight(s) ==
  IF s = << >> THEN << >>
  ELSE IF IsSpace(s[Len(s)]) THEN TrimRight(SubSeq(s, 1, Len(s) - 1)) ELSE s

Trim(s) == TrimRight(TrimLeft(s))

\* fileContent.split('\n'): always at least one piece
RECURSIVE SplitLines(_, _)
SplitLines(s, cur) ==
  IF s = << >> THEN << cur >>
  ELSE IF Head(s) = "\n" THEN << cur >> \o SplitLines(Tail(s), << >>)
  ELSE SplitLines(Tail(s), Append(cur, Head(s)))

RECURSIVE MapTrim(_)
MapTrim(ls) ==
  IF ls = << >> THEN << >> ELSE << Trim(Head(ls)) >> \o MapTrim(Tail(ls))

RECURSIVE DropEmpty(_)
DropEmpty(ls) ==
  IF ls = << >> THEN << >>
  ELSE IF Len(Head(ls)) > 0 THEN << Head(ls) >> \o DropEmpty(Tail(ls))
  ELSE DropEmpty(Tail(ls))

\* the filter of empty lines left out
ReadMessagesUnfiltered(file) == MapTrim(SplitLines(file, << >>))

ReadMessages(file) == DropEmpty(MapTrim(SplitLines(file, << >>)))

\* originalMessage.substring(0, 50) + (length > 50 ? '...' : '')
PreviewLen == 50
Preview(m) ==
  IF Len(m) > PreviewLen
  THEN SubSeq(m, 1, PreviewLen) \o << ".", ".", "." >>
  ELSE m

\* ------------------------------------------------------------ objects ----
\* A MessageSender that has not been constructed yet.  hist is history, not a
\* field of the object: the number of stop() calls so far, whether one of them
\* found the running flag set, whether cleanup() was entered from a catch,
\* whether the send loop was left by its break, and whether a close() call of
\* a cleanup() threw.
NoTask ==
  [ pc |-> "none", sessionId |-> NoSession, taskId |-> NoKey, file |-> << >>,
    messages |-> << >>, isRunning |-> FALSE, currentIndex |-> 0,
    totalSent |-> 0, stopTime |-> "null", browser |-> "null", page |-> "null",
    hist |-> [ stops |-> 0, stoppedRunning |-> FALSE, errorCleanup |-> FALSE,
               fatal |-> FALSE, closeFailed |-> FALSE ] ]

\* new MessageSender(taskId, config, sessionId)
NewTask(s, k, f) ==
  [ NoTask EXCEPT !.pc = "new", !.sessionId = s, !.taskId = k, !.file = f ]

NoResp ==
  [ op |-> "none", sessionId |-> NoSession, taskId |-> NoKey, code |-> 0,
    message |-> "none", tasks |-> {}, activeTasks |-> 0 ]

Reply(op, s, k, code, message) ==
  [ op |-> op, sessionId |-> s, taskId |-> k, code |-> code,
    message |-> message, tasks |-> {}, activeTasks |-> 0 ]

\* The events that end a task's life: the stopped event and the error events
\* of the init failure, the start failure and the fatal send failure.  The
\* per-iteration 'Error sending message' event is not one of them.
TerminalTexts == { "stopped", "initFailed", "startFailed", "fatal" }

\* The room emitStatus sends to: io.to(this.sessionId)
Room(t) == t.sessionId

\* emitStatus with io.emit in place of io.to(room).emit
EmitStatusBroadcast(ios, t, i, status, text, ref) ==
  [ ios EXCEPT
      !.emitted = Append(@,
        [ inst |-> i, taskId |-> t.taskId, status |-> status, text |-> text,
          totalSent |-> t.totalSent, currentIndex |-> t.currentIndex,
          totalMessages |-> Len(t.messages), sessionId |-> t.sessionId,
          stopTime |-> t.stopTime, ref |-> ref,
          to |-> { c \in Sockets : ios.rooms[c] # NoSession } ]),
      !.terminals[i] = IF text \in TerminalTexts THEN @ + 1 ELSE @ ]

\* emitStatus(status, message).  inst (the emitting object) and to (the
\* sockets that are in the room) are recorded with the event's data.
EmitStatus(ios, t, i, status, text, ref) ==
  [ ios EXCEPT
      !.emitted = Append(@,
        [ inst |-> i, taskId |-> t.taskId, status |-> status, text |-> text,
          totalSent |-> t.totalSent, currentIndex |-> t.currentIndex,
          totalMessages |-> Len(t.messages), sessionId |-> t.sessionId,
          stopTime |-> t.stopTime, ref |-> ref,
          to |-> { c \in Sockets : ios.rooms[c] = Room(t) } ]),
      !.terminals[i] = IF text \in TerminalTexts THEN @ + 1 ELSE @ ]

\* io at the start of a step: nothing emitted yet
Quiet == [ io EXCEPT !.emitted = << >> ]

\* ----------------------------------------------------------- registry ----
HasSession(st, s) == s \in DOMAIN st
HasTask(st, s, k) == s \in DOMAIN st /\ k \in DOMAIN st[s]

\* initSessionTasks(sessionId)
initSessionTasks(st, s) ==
  IF s \in DOMAIN st THEN st
  ELSE [ x \in DOMAIN st \cup { s } |-> IF x = s THEN << >> ELSE st[x] ]

\* sessionTasks[sessionId][taskId] = sender
Register(st, s, k, i) ==
  [ st EXCEPT ![s] = [ x \in DOMAIN st[s] \cup { k } |->
                         IF x = k THEN i ELSE st[s][x] ] ]

\* if (sessionTasks[sid]) delete sessionTasks[sid][taskId]
Deregister(st, s, k) ==
  IF s \in DOMAIN st
  THEN [ st EXCEPT ![s] = [ x \in DOMAIN st[s] \ { k } |-> st[s][x] ] ]
  ELSE st

\* delete sessionTasks[sessionId]
DeleteSession(st, s) == [ x \in DOMAIN st \ { s } |-> st[x] ]

\* ------------------------------------------------------------ cleanup ----
\* cleanup() up to its first await: "page" = suspended in page.close(),
\* "browser" = suspended in browser.close(), "end" = nothing to await.
CleanupEntry(t) ==
  IF t.page # "null" THEN "page"
  ELSE IF t.browser # "null" THEN "browser"
  ELSE "end"

\* page.close() completes: ok closes the page, a throw skips browser.close()
AfterPageClose(t, ok) ==
  IF ok
  THEN [ t |-> [ t EXCEPT !.page = "closed" ],
         pos |-> IF t.browser # "null" THEN "browser" ELSE "end" ]
  ELSE [ t |-> [ t EXCEPT !.hist.closeFailed = TRUE ], pos |-> "end" ]

\* browser.close() completes: ok closes the browser and its page
AfterBrowserClose(t, ok) ==
  IF ok
  THEN [ t |-> [ t EXCEPT !.browser = "closed",
                          !.page = IF @ = "null" THEN "null" ELSE "closed" ],
         pos |-> "end" ]
  ELSE [ t |-> [ t EXCEPT !.hist.closeFailed = TRUE ], pos |-> "end" ]

\* stop() up to the first await of cleanup()
StopEntry(t) ==
  [ t EXCEPT !.isRunning = FALSE, !.stopTime = "set",
             !.hist.stops = @ + 1,
             !.hist.stoppedRunning = @ \/ t.isRunning ]

\* The driver is usable: the page exists and neither it nor its browser is
\* closed.  A call on a closed page or browser can only throw.
PageUsable(t) == t.page = "open" /\ t.browser = "open"

\* ---------------------------------------------------------------- init ----
Init ==
  /\ sessionTasks = << >>
  /\ task = [ i \in Inst |-> NoTask ]
  /\ nextId = 1
  /\ stops = [ i \in Inst |-> [ page |-> 0, browser |-> 0 ] ]
  /\ timers = [ s \in Sessions |-> 0 ]
  /\ sd = [ pc |-> "idle", todoS |-> {}, sess |-> NoSession, todoK |-> {},
            orphan |-> FALSE, cur |-> 0, atSignal |-> {} ]
  /\ io = [ rooms |-> [ c \in Sockets |-> NoSession ],
            emitted |-> << >>,
            terminals |-> [ i \in Inst |-> 0 ] ]
  /\ resp = NoResp

\* The process has not exited.
Alive == sd.pc # "exited"

\* ------------------------------------------------------ HTTP handlers ----
\* GET /
GetRoot(s) ==
  /\ Alive
  /\ sessionTasks' = initSessionTasks(sessionTasks, s)
  /\ resp' = Reply("root", s, NoKey, 200, "index")
  /\ io' = Quiet
  /\ UNCHANGED << task, nextId, stops, timers, sd >>

\* the check of /start-task left out
AlreadyExistsNever(st, s, k) == FALSE

\* The check of /start-task for a task of the same key in the session.
AlreadyExists(st, s, k) == k \in DOMAIN st[s]

\* POST /start-task.  fieldsOk: cookie, threadId, file and delay are all
\* present.  On success the handler constructs the MessageSender, registers
\* it and runs start() -> init() up to the first await (fs.readFile).
StartTask(s, k, f, fieldsOk) ==
  LET st1 == initSessionTasks(sessionTasks, s) IN
  /\ Alive
  /\ IF ~fieldsOk
     THEN /\ sessionTasks' = st1
          /\ resp' = Reply("start", s, k, 400, "missing")
          /\ UNCHANGED << task, nextId >>
     ELSE IF AlreadyExists(st1, s, k)
     THEN /\ sessionTasks' = st1
          /\ resp' = Reply("start", s, k, 400, "duplicate")
          /\ UNCHANGED << task, nextId >>
     ELSE /\ nextId <= MaxInst
          /\ sessionTasks' = Register(st1, s, k, nextId)
          /\ task' = [ task EXCEPT ![nextId] =
                         [ NewTask(s, k, f) EXCEPT !.pc = "readFile" ] ]
          /\ nextId' = nextId + 1
          /\ resp' = Reply("start", s, k, 200, "started")
  /\ io' = Quiet
  /\ UNCHANGED << stops, timers, sd >>

\* The effect of task i's stop() when cleanup() has run to its end: the
\* registry entry of (sessionId, taskId) is deleted, then 'stopped' is emitted.
FinishStop(W, i) ==
  [ W EXCEPT
      !.sessionTasks = Deregister(@, W.task[i].sessionId, W.task[i].taskId),
      !.io = EmitStatus(@, W.task[i], i, "stopped", "stopped", << >>) ]

\* stop() called on task i, up to its first suspension.  W holds the
\* variables it writes; the result says where cleanup() is suspended.
CallStop(W, i) ==
  LET t1 == StopEntry(W.task[i])
      W1 == [ W EXCEPT !.task[i] = t1,
                       !.io = EmitStatus(@, t1, i, "stopping", "stopping", << >>) ]
      pos == CleanupEntry(t1)
  IN  [ pos |-> pos, W |-> IF pos = "end" THEN FinishStop(W1, i) ELSE W1 ]

\* The variables a stop() writes, at the start of a step.
World == [ sessionTasks |-> sessionTasks, task |-> task, io |-> Quiet, sd |-> sd ]

\* the stop route looking the key up in whichever session holds it
StopSessionAny(st, s, k) ==
  IF \E x \in DOMAIN st : k \in DOMAIN st[x]
  THEN CHOOSE x \in DOMAIN st : k \in DOMAIN st[x]
  ELSE s

\* The session in whose registry /stop-task looks the key up:
\* const sessionId = req.session.id
StopSession(st, s, k) == s

\* POST /stop-task
StopTask(s0, k) ==
  LET s == StopSession(sessionTasks, s0, k) IN
  /\ Alive
  /\ IF k = NoKey \/ ~HasTask(sessionTasks, s, k)
     THEN /\ resp' = Reply("stop", s0, k, 400, "notFound")
          /\ io' = Quiet
          /\ UNCHANGED << sessionTasks, task, stops >>
     ELSE LET i == sessionTasks[s][k]
              r == CallStop(World, i)
          IN  /\ stops[i].page + stops[i].browser < MaxStops
              /\ sessionTasks' = r.W.sessionTasks
              /\ task' = r.W.task
              /\ io' = r.W.io
              /\ stops' = IF r.pos = "end" THEN stops
                          ELSE [ stops EXCEPT ![i][r.pos] = @ + 1 ]
              /\ resp' = Reply("stop", s0, k, 200, "stopped")
  /\ UNCHANGED << nextId, timers, sd >>

\* The listing /active-tasks computes for a session that has an entry.
\* inst (the listed object) is recorded with each entry's data.
ListTasks(st, tk, s) ==
  { [ taskId |-> k, inst |-> st[s][k], isRunning |-> tk[st[s][k]].isRunning,
      totalSent |-> tk[st[s][k]].totalSent,
      currentIndex |-> tk[st[s][k]].currentIndex,
      totalMessages |-> Len(tk[st[s][k]].messages), sessionId |-> s ]
    : k \in DOMAIN st[s] }

\* GET /active-tasks
ActiveTasks(s) ==
  LET st1 == initSessionTasks(sessionTasks, s) IN
  /\ Alive
  /\ sessionTasks' = st1
  /\ resp' = [ Reply("list", s, NoKey, 200, "tasks") EXCEPT
                 !.tasks = ListTasks(st1, task, s) ]
  /\ io' = Quiet
  /\ UNCHANGED << task, nextId, stops, timers, sd >>

\* GET /session-info
SessionInfo(s) ==
  /\ Alive
  /\ resp' = [ Reply("info", s, NoKey, 200, "info") EXCEPT
                 !.activeTasks = IF HasSession(sessionTasks, s)
                                 THEN Cardinality(DOMAIN sessionTasks[s])
                                 ELSE 0 ]
  /\ io' = Quiet
  /\ UNCHANGED << sessionTasks, task, nextId, stops, timers, sd >>

\* ------------------------------------------------------------ sockets ----
\* io.on('connection'): socket.join(sessionId)
Connect(c, s) ==
  /\ Alive
  /\ io.rooms[c] = NoSession
  /\ io' = [ Quiet EXCEPT !.rooms[c] = s ]
  /\ resp' = NoResp
  /\ UNCHANGED << sessionTasks, task, nextId, stops, timers, sd >>

\* socket 'disconnect': the socket leaves its rooms
Disconnect(c) ==
  /\ Alive
  /\ io.rooms[c] # NoSession
  /\ io' = [ Quiet EXCEPT !.rooms[c] = NoSession ]
  /\ resp' = NoResp
  /\ UNCHANGED << sessionTasks, task, nextId, stops, timers, sd >>

\* Object.values(sessionTasks[sessionId]).forEach: re-emit the running tasks
RECURSIVE EmitRunning(_, _, _, _)
EmitRunning(ios, st, tk, ks) ==
  IF ks = {} THEN ios
  ELSE LET k == CHOOSE x \in ks : TRUE
           i == st[k]
       IN  EmitRunning(
             IF tk[i].isRunning
             THEN EmitStatus(ios, tk[i], i, "active", "running", << >>)
             ELSE ios,
             st, tk, ks \ { k })

\* socket.on('getSessionTasks'); the session is the one the socket joined
GetSessionTasks(c) ==
  /\ Alive
  /\ io.rooms[c] # NoSession
  /\ io' = IF HasSession(sessionTasks, io.rooms[c])
           THEN EmitRunning(Quiet, sessionTasks[io.rooms[c]], task,
                            DOMAIN sessionTasks[io.rooms[c]])
           ELSE Quiet
  /\ resp' = NoResp
  /\ UNCHANGED << sessionTasks, task, nextId, stops, timers, sd >>

\* ------------------------------------------- the start() coroutine ----
\* cleanup() called from start()'s catch or at the end of sendMessages(),
\* up to its first await; with nothing to close it runs to its end at once.
TaskCleanup(st, t) ==
  LET pos == CleanupEntry(t) IN
  [ st |-> IF pos = "end" THEN Deregister(st, t.sessionId, t.taskId) ELSE st,
    t |-> [ t EXCEPT !.pc = IF pos = "page" THEN "clPage"
                            ELSE IF pos = "browser" THEN "clBrowser"
                            ELSE "done" ] ]

\* A step of the coroutine that only moves on to the next await.
Goto(i, t, pc) ==
  /\ task' = [ task EXCEPT ![i] = [ t EXCEPT !.pc = pc ] ]
  /\ io' = Quiet
  /\ UNCHANGED sessionTasks

\* init()'s catch: emit the error, return false; start() returns false.
InitFail(i, t) ==
  /\ task' = [ task EXCEPT ![i] = [ t EXCEPT !.pc = "done" ] ]
  /\ io' = EmitStatus(Quiet, t, i, "error", "initFailed", << >>)
  /\ UNCHANGED sessionTasks

\* init() returned true: start() sets the running flag and emits 'starting'.
InitOk(i, t) ==
  LET t1 == [ t EXCEPT !.isRunning = TRUE, !.pc = "gotoHome" ] IN
  /\ task' = [ task EXCEPT ![i] = t1 ]
  /\ io' = EmitStatus(Quiet, t1, i, "starting", "starting", << >>)
  /\ UNCHANGED sessionTasks

\* start()'s catch: emit the error, clear the flag, run cleanup().
StartFail(i, t) ==
  LET t1 == [ t EXCEPT !.isRunning = FALSE, !.hist.errorCleanup = TRUE ]
      c == TaskCleanup(sessionTasks, t1)
  IN  /\ task' = [ task EXCEPT ![i] = c.t ]
      /\ io' = EmitStatus(Quiet, t, i, "error", "startFailed", << >>)
      /\ sessionTasks' = c.st

\* The top of the while loop of sendMessages(), reached with the events of
\* the finished iteration already in ios.
LoopTop(i, t, ios) ==
  IF t.isRunning
  THEN /\ task' = [ task EXCEPT ![i] = [ t EXCEPT !.pc = "locate" ] ]
       /\ io' = ios
       /\ UNCHANGED sessionTasks
  ELSE LET c == TaskCleanup(sessionTasks, t) IN
       /\ task' = [ task EXCEPT ![i] = c.t ]
       /\ io' = ios
       /\ sessionTasks' = c.st

\* the catch of one iteration moving the cursor on to the next message
SendCatchSkip(i, t, fatal) ==
  /\ task' = [ task EXCEPT ![i] =
                 [ t EXCEPT !.pc = IF fatal THEN "backoffF" ELSE "backoffT",
                            !.currentIndex = (@ + 1) % Len(t.messages) ] ]
  /\ io' = EmitStatus(Quiet, t, i, "error", "sendError", << >>)
  /\ UNCHANGED sessionTasks

\* The catch of one iteration, up to the await of delay(5000).
SendCatch(i, t, fatal) ==
  /\ task' = [ task EXCEPT ![i] =
                 [ t EXCEPT !.pc = IF fatal THEN "backoffF" ELSE "backoffT" ] ]
  /\ io' = EmitStatus(Quiet, t, i, "error", "sendError", << >>)
  /\ UNCHANGED sessionTasks

\* fs.readFile completes; the messages are split, trimmed and filtered.
ReadFile(i, ok) ==
  /\ Alive /\ task[i].pc = "readFile"
  /\ IF ok
     THEN LET t1 == [ task[i] EXCEPT !.messages = ReadMessages(task[i].file) ]
          IN  IF Len(t1.messages) = 0
              THEN InitFail(i, t1)
              ELSE Goto(i, t1, "removeFile")
     ELSE InitFail(i, task[i])
  /\ resp' = NoResp
  /\ UNCHANGED << nextId, stops, timers, sd >>

\* fs.remove completes
RemoveFile(i, ok) ==
  /\ Alive /\ task[i].pc = "removeFile"
  /\ IF ok THEN Goto(i, task[i], "launch") ELSE InitFail(i, task[i])
  /\ resp' = NoResp
  /\ UNCHANGED << nextId, stops, timers, sd >>

\* puppeteer.launch completes
Launch(i, ok) ==
  /\ Alive /\ task[i].pc = "launch"
  /\ IF ok
     THEN Goto(i, [ task[i] EXCEPT !.browser = "open" ], "newPage")
     ELSE InitFail(i, task[i])
  /\ resp' = NoResp
  /\ UNCHANGED << nextId, stops, timers, sd >>

\* browser.newPage completes
NewPage(i, ok) ==
  /\ Alive /\ task[i].pc = "newPage"
  /\ ok => task[i].browser = "open"
  /\ IF ok
     THEN Goto(i, [ task[i] EXCEPT !.page = "open" ], "pageSetup")
     ELSE InitFail(i, task[i])
  /\ resp' = NoResp
  /\ UNCHANGED << nextId, stops, timers, sd >>

\* page.setViewport and page.setUserAgent complete; init() returns
PageSetup(i, ok) ==
  /\ Alive /\ task[i].pc = "pageSetup"
  /\ ok => PageUsable(task[i])
  /\ IF ok THEN InitOk(i, task[i]) ELSE InitFail(i, task[i])
  /\ resp' = NoResp
  /\ UNCHANGED << nextId, stops, timers, sd >>

\* page.goto('https://www.facebook.com') completes
GotoHome(i, ok) ==
  /\ Alive /\ task[i].pc = "gotoHome"
  /\ ok => PageUsable(task[i])
  /\ IF ok THEN Goto(i, task[i], "setCookies") ELSE StartFail(i, task[i])
  /\ resp' = NoResp
  /\ UNCHANGED << nextId, stops, timers, sd >>

\* the page.setCookie calls complete
SetCookies(i, ok) ==
  /\ Alive /\ task[i].pc = "setCookies"
  /\ ok => PageUsable(task[i])
  /\ IF ok THEN Goto(i, task[i], "gotoThread") ELSE StartFail(i, task[i])
  /\ resp' = NoResp
  /\ UNCHANGED << nextId, stops, timers, sd >>

\* page.goto(conversationUrl) completes; 'active' is emitted and
\* sendMessages() runs to its first await
GotoThread(i, ok) ==
  /\ Alive /\ task[i].pc = "gotoThread"
  /\ ok => PageUsable(task[i])
  /\ IF ok
     THEN LoopTop(i, task[i],
                  EmitStatus(Quiet, task[i], i, "active", "connected", << >>))
     ELSE StartFail(i, task[i])
  /\ resp' = NoResp
  /\ UNCHANGED << nextId, stops, timers, sd >>

\* ----------------------------------------------------- the send loop ----
\* waitForSelector and page.$ complete.  "found": a textbox handle;
\* "null": page.$ found nothing, 'Message textbox not found' is thrown;
\* "throw": a call rejected (timeout, closed page).
Locate(i, out) ==
  /\ Alive /\ task[i].pc = "locate"
  /\ out \in { "found", "null" } => PageUsable(task[i])
  /\ IF out = "found"
     THEN Goto(i, task[i], "submit")
     ELSE SendCatch(i, task[i], out = "null")
  /\ resp' = NoResp
  /\ UNCHANGED << nextId, stops, timers, sd >>

\* the cursor advanced without wrapping
SentNoWrap(t) ==
  [ t EXCEPT !.totalSent = @ + 1, !.currentIndex = @ + 1 ]

\* The counters after a successful submit.
Sent(t) ==
  [ t EXCEPT !.totalSent = @ + 1,
             !.currentIndex = (@ + 1) % Len(t.messages) ]

\* the message read after the cursor has advanced
messageAfterAdvance(t) ==
  t.messages[((t.currentIndex + 1) % Len(t.messages)) + 1]

\* const originalMessage = this.messages[this.currentIndex], read at the
\* top of the iteration
originalMessage(t) == t.messages[t.currentIndex + 1]

\* click, the keyboard calls and press('Enter') complete.  On success the
\* counters advance, 'active' is emitted and delay(config.delay) is awaited.
Submit(i, ok) ==
  /\ Alive /\ task[i].pc = "submit"
  /\ ok => PageUsable(task[i]) /\ task[i].totalSent < MaxSent
  /\ IF ok
     THEN LET t == task[i]
              t1 == [ Sent(t) EXCEPT !.pc = "delay" ]
          IN  /\ task' = [ task EXCEPT ![i] = t1 ]
              /\ io' = EmitStatus(Quiet, t1, i, "active", "sent",
                                  Preview(originalMessage(t)))
              /\ UNCHANGED sessionTasks
     ELSE SendCatch(i, task[i], FALSE)
  /\ resp' = NoResp
  /\ UNCHANGED << nextId, stops, timers, sd >>

\* delay(config.delay * 1000) elapses
Delay(i) ==
  /\ Alive /\ task[i].pc = "delay"
  /\ LoopTop(i, task[i], Quiet)
  /\ resp' = NoResp
  /\ UNCHANGED << nextId, stops, timers, sd >>

\* delay(5000) in the catch elapses and the loop goes on whatever the error
BackoffRetry(i) ==
  /\ Alive /\ task[i].pc \in { "backoffT", "backoffF" }
  /\ LoopTop(i, task[i], Quiet)
  /\ resp' = NoResp
  /\ UNCHANGED << nextId, stops, timers, sd >>

\* delay(5000) in the catch elapses: a fatal error emits and breaks, any
\* other goes back to the top of the loop
Backoff(i) ==
  /\ Alive /\ task[i].pc \in { "backoffT", "backoffF" }
  /\ IF task[i].pc = "backoffF"
     THEN LET c == TaskCleanup(sessionTasks,
                                [ task[i] EXCEPT !.hist.errorCleanup = TRUE,
                                                 !.hist.fatal = TRUE ])
          IN
          /\ task' = [ task EXCEPT ![i] = c.t ]
          /\ io' = EmitStatus(Quiet, task[i], i, "error", "fatal", << >>)
          /\ sessionTasks' = c.st
     ELSE LoopTop(i, task[i], Quiet)
  /\ resp' = NoResp
  /\ UNCHANGED << nextId, stops, timers, sd >>

\* cleanup() of the start() coroutine: page.close() completes
ClPage(i, ok) ==
  /\ Alive /\ task[i].pc = "clPage"
  /\ LET r == AfterPageClose(task[i], ok) IN
     IF r.pos = "browser"
     THEN /\ task' = [ task EXCEPT ![i] = [ r.t EXCEPT !.pc = "clBrowser" ] ]
          /\ UNCHANGED sessionTasks
     ELSE /\ task' = [ task EXCEPT ![i] = [ r.t EXCEPT !.pc = "done" ] ]
          /\ sessionTasks' =
               Deregister(sessionTasks, task[i].sessionId, task[i].taskId)
  /\ io' = Quiet
  /\ resp' = NoResp
  /\ UNCHANGED << nextId, stops, timers, sd >>

\* cleanup() of the start() coroutine: browser.close() completes
ClBrowser(i, ok) ==
  /\ Alive /\ task[i].pc = "clBrowser"
  /\ LET r == AfterBrowserClose(task[i], ok) IN
     /\ task' = [ task EXCEPT ![i] = [ r.t EXCEPT !.pc = "done" ] ]
     /\ sessionTasks' =
          Deregister(sessionTasks, task[i].sessionId, task[i].taskId)
  /\ io' = Quiet
  /\ resp' = NoResp
  /\ UNCHANGED << nextId, stops, timers, sd >>

\* ------------------------------------------- stop() from /stop-task ----
\* page.close() of one suspended stop() of task i completes
StopPageClose(i, ok) ==
  /\ Alive /\ stops[i].page > 0
  /\ LET r == AfterPageClose(task[i], ok)
         W1 == [ World EXCEPT !.task[i] = r.t ]
     IN  IF r.pos = "browser"
         THEN /\ task' = W1.task
              /\ stops' = [ stops EXCEPT ![i].page = @ - 1,
                                         ![i].browser = @ + 1 ]
              /\ io' = Quiet
              /\ UNCHANGED sessionTasks
         ELSE LET W2 == FinishStop(W1, i) IN
              /\ task' = W2.task
              /\ sessionTasks' = W2.sessionTasks
              /\ io' = W2.io
              /\ stops' = [ stops EXCEPT ![i].page = @ - 1 ]
  /\ resp' = NoResp
  /\ UNCHANGED << nextId, timers, sd >>

\* browser.close() of one suspended stop() of task i completes
StopBrowserClose(i, ok) ==
  /\ Alive /\ stops[i].browser > 0
  /\ LET r == AfterBrowserClose(task[i], ok)
         W2 == FinishStop([ World EXCEPT !.task[i] = r.t ], i)
     IN  /\ task' = W2.task
         /\ sessionTasks' = W2.sessionTasks
         /\ io' = W2.io
         /\ stops' = [ stops EXCEPT ![i].browser = @ - 1 ]
  /\ resp' = NoResp
  /\ UNCHANGED << nextId, timers, sd >>

\* ------------------------------------------------------ session sweep ----
EmptySessions(st) == { s \in DOMAIN st : DOMAIN st[s] = {} }

\* The setInterval callback: one setTimeout per session without tasks.
Sweep ==
  /\ Alive
  /\ \A s \in EmptySessions(sessionTasks) : timers[s] < MaxTimers
  /\ timers' = [ s \in Sessions |->
                   IF s \in EmptySessions(sessionTasks)
                   THEN timers[s] + 1 ELSE timers[s] ]
  /\ io' = Quiet
  /\ resp' = NoResp
  /\ UNCHANGED << sessionTasks, task, nextId, stops, sd >>

\* What the setTimeout callback leaves of the registry.
ExpireSession(st, s) == DeleteSession(st, s)

\* A setTimeout callback of the sweep runs.  A SIGINT handler iterating the
\* deleted session's object keeps iterating that object.
TimerFire(s) ==
  /\ Alive
  /\ timers[s] > 0
  /\ timers' = [ timers EXCEPT ![s] = @ - 1 ]
  /\ sessionTasks' = ExpireSession(sessionTasks, s)
  /\ sd' = IF sd.sess = s /\ ~sd.orphan /\ HasSession(sessionTasks, s)
           THEN [ sd EXCEPT !.orphan = TRUE,
                            !.todoK = @ \cap DOMAIN sessionTasks[s] ]
           ELSE sd
  /\ io' = Quiet
  /\ resp' = NoResp
  /\ UNCHANGED << task, nextId, stops >>

\* ----------------------------------------------------------- shutdown ----
\* The two nested for-in loops of the SIGINT handler, run from the point
\* in W.sd until the handler suspends in a stop(), throws or calls
\* process.exit: the set of worlds it can leave.  for-in visits the keys
\* an object had when its loop began and still has when their turn comes;
\* the order of the keys is left open.  sd.todoS and sd.todoK are the keys
\* not visited yet, sd.sess the session whose object the inner loop walks.
\* The loop body reads sessionTasks[sessionId][taskId] again: when the
\* session entry or the key is gone by then, the call on undefined throws;
\* the rejection is unhandled, which ends the process or only the handler.
RECURSIVE SdRun(_)
SdRun(W) ==
  LET v == W.sd
      R == IF v.sess = NoSession THEN {}
           ELSE IF v.orphan THEN v.todoK
           ELSE v.todoK \cap DOMAIN W.sessionTasks[v.sess]
      RS == v.todoS \cap DOMAIN W.sessionTasks
  IN
  IF R # {}
  THEN UNION {
         IF ~HasTask(W.sessionTasks, v.sess, k)
         THEN { [ W EXCEPT !.sd.pc = "failed", !.sd.todoK = R \ { k } ],
                [ W EXCEPT !.sd.pc = "exited", !.sd.todoK = R \ { k } ] }
         ELSE LET i == W.sessionTasks[v.sess][k]
                  r == CallStop([ W EXCEPT !.sd.todoK = R \ { k } ], i)
              IN  IF r.pos = "end"
                  THEN SdRun(r.W)
                  ELSE { [ r.W EXCEPT !.sd.pc = r.pos, !.sd.cur = i ] }
         : k \in R }
  ELSE IF RS # {}
  THEN UNION {
         SdRun([ W EXCEPT !.sd.todoS = RS \ { s }, !.sd.sess = s,
                          !.sd.todoK = DOMAIN W.sessionTasks[s],
                          !.sd.orphan = FALSE ])
         : s \in RS }
  ELSE { [ W EXCEPT !.sd.pc = "exited", !.sd.todoS = {}, !.sd.todoK = {},
                    !.sd.sess = NoSession, !.sd.orphan = FALSE,
                    !.sd.cur = 0 ] }

SdStep(W) ==
  \E o \in SdRun(W) :
    /\ sessionTasks' = o.sessionTasks
    /\ task' = o.task
    /\ io' = o.io
    /\ sd' = o.sd

\* The tasks the registry holds.
RegisteredTasks(st) ==
  UNION { { st[s][k] : k \in DOMAIN st[s] } : s \in DOMAIN st }

\* process.on('SIGINT'); sd.atSignal records the tasks registered when the
\* signal arrives (history).
Sigint ==
  /\ sd.pc = "idle"
  /\ SdStep([ World EXCEPT !.sd.pc = "loop",
                           !.sd.todoS = DOMAIN sessionTasks,
                           !.sd.atSignal = RegisteredTasks(sessionTasks) ])
  /\ resp' = NoResp
  /\ UNCHANGED << nextId, stops, timers >>

\* page.close() of the stop() the SIGINT handler awaits completes
SdPageClose(ok) ==
  /\ sd.pc = "page"
  /\ LET i == sd.cur
         r == AfterPageClose(task[i], ok)
         W1 == [ World EXCEPT !.task[i] = r.t ]
     IN  IF r.pos = "browser"
         THEN /\ task' = W1.task
              /\ sd' = [ sd EXCEPT !.pc = "browser" ]
              /\ io' = Quiet
              /\ UNCHANGED sessionTasks
         ELSE SdStep([ FinishStop(W1, i) EXCEPT !.sd.pc = "loop",
                                                !.sd.cur = 0 ])
  /\ resp' = NoResp
  /\ UNCHANGED << nextId, stops, timers >>

\* browser.close() of the stop() the SIGINT handler awaits completes
SdBrowserClose(ok) ==
  /\ sd.pc = "browser"
  /\ LET i == sd.cur
         r == AfterBrowserClose(task[i], ok)
     IN  SdStep([ FinishStop([ World EXCEPT !.task[i] = r.t ], i)
                    EXCEPT !.sd.pc = "loop", !.sd.cur = 0 ])
  /\ resp' = NoResp
  /\ UNCHANGED << nextId, stops, timers >>

\* ---------------------------------------------------------------- next ----
\* The driver and the file system are the environment.  An environment E
\* names the calls that may fail of themselves (E.fails, by the pc of the
\* await) and a cap on the sends of one task (E.sends); a call on a closed
\* page or browser fails in every environment.
Steps ==
  { "readFile", "removeFile", "launch", "newPage", "pageSetup", "gotoHome",
    "setCookies", "gotoThread", "locate", "submit", "close" }

AnyEnv == [ fails |-> Steps, sends |-> MaxSent ]

Allowed(E, i, step, ok) ==
  \/ ok
  \/ step \in E.fails
  \/ step = "newPage" /\ task[i].browser # "open"
  \/ /\ step \in { "pageSetup", "gotoHome", "setCookies", "gotoThread",
                   "locate", "submit" }
     /\ ~PageUsable(task[i])

\* Every step of one MessageSender's coroutines in environment E.
TaskStep(i, E) ==
  \/ \E ok \in BOOLEAN : Allowed(E, i, "readFile", ok) /\ ReadFile(i, ok)
  \/ \E ok \in BOOLEAN : Allowed(E, i, "removeFile", ok) /\ RemoveFile(i, ok)
  \/ \E ok \in BOOLEAN : Allowed(E, i, "launch", ok) /\ Launch(i, ok)
  \/ \E ok \in BOOLEAN : Allowed(E, i, "newPage", ok) /\ NewPage(i, ok)
  \/ \E ok \in BOOLEAN : Allowed(E, i, "pageSetup", ok) /\ PageSetup(i, ok)
  \/ \E ok \in BOOLEAN : Allowed(E, i, "gotoHome", ok) /\ GotoHome(i, ok)
  \/ \E ok \in BOOLEAN : Allowed(E, i, "setCookies", ok) /\ SetCookies(i, ok)
  \/ \E ok \in BOOLEAN : Allowed(E, i, "gotoThread", ok) /\ GotoThread(i, ok)
  \/ \E out \in { "found", "null", "throw" } :
       Allowed(E, i, "locate", out = "found") /\ Locate(i, out)
  \/ \E ok \in BOOLEAN :
       /\ Allowed(E, i, "submit", ok)
       /\ ok => task[i].totalSent < E.sends
       /\ Submit(i, ok)
  \/ Delay(i)
  \/ Backoff(i)
  \/ \E ok \in BOOLEAN : Allowed(E, i, "close", ok) /\ ClPage(i, ok)
  \/ \E ok \in BOOLEAN : Allowed(E, i, "close", ok) /\ ClBrowser(i, ok)
  \/ \E ok \in BOOLEAN : Allowed(E, i, "close", ok) /\ StopPageClose(i, ok)
  \/ \E ok \in BOOLEAN : Allowed(E, i, "close", ok) /\ StopBrowserClose(i, ok)

Next ==
  \/ \E s \in Sessions : GetRoot(s)
  \/ \E s \in Sessions, k \in Keys, f \in Files, fieldsOk \in BOOLEAN :
       StartTask(s, k, f, fieldsOk)
  \/ \E s \in Sessions, k \in Keys \cup { NoKey } : StopTask(s, k)
  \/ \E s \in Sessions : ActiveTasks(s)
  \/ \E s \in Sessions : SessionInfo(s)
  \/ \E c \in Sockets, s \in Sessions : Connect(c, s)
  \/ \E c \in Sockets : Disconnect(c)
  \/ \E c \in Sockets : GetSessionTasks(c)
  \/ \E i \in Inst : TaskStep(i, AnyEnv)
  \/ Sweep
  \/ \E s \in Sessions : TimerFire(s)
  \/ Sigint
  \/ \E ok \in BOOLEAN : SdPageClose(ok)
  \/ \E ok \in BOOLEAN : SdBrowserClose(ok)

Spec == Init /\ [][Next]_vars

\* ------------------------------------------------------- environments ----
\* Each specification below restricts the requests and the driver failures
\* of Next; every behaviour it allows is a behaviour of Spec.

\* One message file of two messages.
TwoMessages == << "h", "i", "\n", " ", "t", " ", "\n" >>

\* Driver calls fail only on a closed page or browser; one send per task.
CalmEnv == [ fails |-> {}, sends |-> 1 ]

\* stop() calls of the task registered as (s, k) suspended in cleanup
InFlight(s, k) ==
  IF HasTask(sessionTasks, s, k)
  THEN stops[sessionTasks[s][k]].page + stops[sessionTasks[s][k]].browser
  ELSE 0

\* The life of one task, with every file, every driver failure, repeated
\* stop requests and a subscriber.
NextTask ==
  \/ \E s \in Sessions, k \in Keys, f \in Files :
       nextId = 1 /\ StartTask(s, k, f, TRUE)
  \/ \E s \in Sessions, k \in Keys : StopTask(s, k)
  \/ \E c \in Sockets, s \in Sessions : Connect(c, s)
  \/ \E c \in Sockets : GetSessionTasks(c)
  \/ \E i \in Inst : TaskStep(i, AnyEnv)

SpecTask == Init /\ [][NextTask]_vars

\* Tasks of both sessions side by side, with listings and subscribers: the
\* first task is started under s1, the later ones under another session.
NextIso ==
  \/ \E s \in Sessions, k \in Keys :
       /\ (nextId = 1) = (s = "s1")
       /\ StartTask(s, k, TwoMessages, TRUE)
  \/ \E s \in Sessions, k \in Keys : InFlight(s, k) < 1 /\ StopTask(s, k)
  \/ \E s \in Sessions : ActiveTasks(s)
  \/ \E c \in Sockets, s \in Sessions : Connect(c, s)
  \/ \E c \in Sockets : Disconnect(c)
  \/ \E c \in Sockets : GetSessionTasks(c)
  \/ \E i \in Inst : TaskStep(i, CalmEnv)

SpecIso == Init /\ [][NextIso]_vars

\* Start and stop requests for the same keys, well-formed or not.
NextReg ==
  \/ \E s \in Sessions, k \in Keys, fieldsOk \in BOOLEAN :
       StartTask(s, k, TwoMessages, fieldsOk)
  \/ \E s \in Sessions, k \in Keys : InFlight(s, k) < 1 /\ StopTask(s, k)
  \/ \E i \in Inst : TaskStep(i, CalmEnv)

SpecReg == Init /\ [][NextReg]_vars

\* One task of two messages, the sweep and its timeouts.
NextSweep ==
  \/ \E s \in Sessions : GetRoot(s)
  \/ \E s \in Sessions, k \in Keys :
       nextId = 1 /\ StartTask(s, k, TwoMessages, TRUE)
  \/ \E s \in Sessions, k \in Keys : InFlight(s, k) < 1 /\ StopTask(s, k)
  \/ Sweep
  \/ \E s \in Sessions : TimerFire(s)
  \/ \E i \in Inst : TaskStep(i, CalmEnv)

SpecSweep == Init /\ [][NextSweep]_vars

\* Tasks of both sessions and the SIGINT handler: the first task is started
\* under s1, the later ones under another session; stop is requested over
\* HTTP for the tasks of s1 only.
NextShutdown ==
  \/ \E s \in Sessions, k \in Keys :
       /\ (nextId = 1) = (s = "s1")
       /\ StartTask(s, k, TwoMessages, TRUE)
  \/ \E k \in Keys : InFlight("s1", k) < 1 /\ StopTask("s1", k)
  \/ Sigint
  \/ SdPageClose(TRUE)
  \/ SdBrowserClose(TRUE)
  \/ \E i \in Inst : TaskStep(i, CalmEnv)

SpecShutdown == Init /\ [][NextShutdown]_vars

\* ------------------------------------------------------------- claims ----
Registered(i) ==
  /\ HasTask(sessionTasks, task[i].sessionId, task[i].taskId)
  /\ sessionTasks[task[i].sessionId][task[i].taskId] = i

\* The start() coroutine of object i has begun and has not finished.
Live(i) == task[i].pc \notin { "none", "done" }

Events == { io.emitted[n] : n \in 1..Len(io.emitted) }

\* C1: every entry of a listing returned to a session is a task that was
\* started under that session, and every status event is delivered only to
\* sockets that joined under the session the emitting task was started under.
C1_Isolation ==
  /\ resp.op = "list" =>
       \A e \in resp.tasks : task[e.inst].sessionId = resp.sessionId
  /\ \A e \in Events : \A c \in e.to :
       io.rooms[c] = task[e.inst].sessionId

\* Both sessions have a task registered under the same key, one of them has
\* just emitted to a subscriber of its session, and a socket is subscribed.
C1_Witness ==
  /\ \E k \in Keys : \A s \in Sessions : HasTask(sessionTasks, s, k)
  /\ \E e \in Events : e.to # {} /\ e.status = "active"

\* C2: a well-formed start request for (session, key) is answered 400
\* 'duplicate' and constructs nothing when the key is in the session's
\* registry entry, and is answered 200 and registers a new task when it is not.
C2_DuplicateRejected ==
  [][ (resp'.op = "start" /\ resp'.message # "missing") =>
        IF HasTask(sessionTasks, resp'.sessionId, resp'.taskId)
        THEN /\ resp'.code = 400 /\ resp'.message = "duplicate"
             /\ UNCHANGED << sessionTasks, task, nextId >>
        ELSE /\ resp'.code = 200
             /\ nextId' = nextId + 1
             /\ HasTask(sessionTasks', resp'.sessionId, resp'.taskId)
             /\ sessionTasks'[resp'.sessionId][resp'.taskId] = nextId
             /\ task'[nextId].pc = "readFile" ]_vars

\* A start was just accepted for a key whose earlier task in the same session
\* has finished and was removed by its cleanup.
C2_Witness ==
  /\ resp.op = "start" /\ resp.code = 200
  /\ \E i \in Inst :
       /\ i + 1 < nextId
       /\ task[i].sessionId = resp.sessionId /\ task[i].taskId = resp.taskId
       /\ task[i].pc = "done" /\ task[i].browser = "closed"

\* C3: no two objects of the same session and key are executing at once.
C3_OneLivePerKey ==
  \A i, j \in Inst :
    (i # j /\ Live(i) /\ Live(j)) =>
      ~(task[i].sessionId = task[j].sessionId /\ task[i].taskId = task[j].taskId)

\* C4: the cursor of a task with N >= 1 messages is its sent count modulo N,
\* and the sent count changes only by one, in the step of a successful submit.
C4_CursorInv ==
  \A i \in Inst :
    Len(task[i].messages) >= 1 =>
      task[i].currentIndex = task[i].totalSent % Len(task[i].messages)

C4_Cursor ==
  /\ []C4_CursorInv
  /\ [][ \A i \in Inst :
           /\ task'[i].totalSent # task[i].totalSent =>
                task'[i].totalSent = task[i].totalSent + 1
           /\ (task[i].pc = "submit" /\ task'[i].pc = "delay") <=>
                (task'[i].totalSent = task[i].totalSent + 1) ]_vars

\* After a transient failure the third send of two messages has wrapped.
C4_Witness ==
  \E i \in Inst :
    /\ Len(task[i].messages) = 2 /\ task[i].totalSent = 3
    /\ task[i].currentIndex = 1 /\ task[i].pc = "backoffT"

\* C5: a task on which stop was requested once, while its running flag was
\* set, has emitted at most one terminal status event.
C5_OneTerminalAfterStop ==
  \A i \in Inst :
    (task[i].hist.stoppedRunning /\ task[i].hist.stops = 1) =>
      io.terminals[i] <= 1

\* C6: a task on which stop was requested twice has emitted at most one
\* terminal status event.
C6_NoDuplicateTerminal ==
  \A i \in Inst : task[i].hist.stops >= 2 => io.terminals[i] <= 1

\* The file holds nothing but white space and line ends.
IsBlankFile(f) == \A n \in 1..Len(f) : IsSpace(f[n])

\* C7: a task whose file is blank never gets past reading it, never has its
\* running flag set, never emits an active event, and the step that ends the
\* read emits the initialization error.
C7_BlankInv ==
  \A i \in Inst :
    (task[i].pc # "none" /\ IsBlankFile(task[i].file)) =>
      /\ task[i].pc \in { "readFile", "done" }
      /\ ~task[i].isRunning
      /\ \A e \in Events : e.inst = i => e.status # "active"

C7_EmptyList ==
  /\ []C7_BlankInv
  /\ [][ \A i \in Inst :
           (/\ IsBlankFile(task[i].file)
            /\ task[i].pc = "readFile" /\ task'[i].pc # "readFile") =>
             /\ task'[i].pc = "done"
             /\ \E n \in 1..Len(io'.emitted) :
                  /\ io'.emitted[n].inst = i
                  /\ io'.emitted[n].status = "error"
                  /\ io'.emitted[n].text = "initFailed" ]_vars

\* A file of blank lines was read and the initialization error emitted.
C7_Witness ==
  \E i \in Inst :
    /\ task[i].file # << >> /\ IsBlankFile(task[i].file)
    /\ task[i].pc = "done" /\ task[i].messages = << >>
    /\ \E e \in Events : e.inst = i /\ e.text = "initFailed"

\* C8: when a removal timeout of the sweep expires, the session's entry is
\* removed if it holds no task and is left as it is if it holds one.
C8_GraceRecheck ==
  [][ \A s \in Sessions :
        (timers'[s] < timers[s] /\ HasSession(sessionTasks, s)) =>
          IF DOMAIN sessionTasks[s] = {}
          THEN ~HasSession(sessionTasks', s)
          ELSE /\ HasSession(sessionTasks', s)
               /\ sessionTasks'[s] = sessionTasks[s] ]_vars

\* C9: when the process has exited, no task that was registered when the
\* shutdown signal arrived holds an open browser.
C9_NoBrowserAtExit ==
  sd.pc = "exited" => \A i \in sd.atSignal : task[i].browser # "open"

\* C10: a task whose execution has finished is no longer registered.
C10_FinishedIsRemoved ==
  \A i \in Inst : task[i].pc = "done" => ~Registered(i)

\* C11: a stop request for a key that the caller's session does not hold is
\* answered NotFound and changes nothing: not the registry, not any task
\* (running flag, driver handles, counters), not a pending stop, and no
\* status event is emitted.
C11_StopScoped ==
  [][ \A s \in Sessions, k \in Keys :
        (/\ resp'.op = "stop" /\ resp'.sessionId = s /\ resp'.taskId = k
         /\ ~HasTask(sessionTasks, s, k)) =>
          /\ resp'.code = 400 /\ resp'.message = "notFound"
          /\ sessionTasks' = sessionTasks /\ task' = task /\ stops' = stops
          /\ nextId' = nextId /\ timers' = timers /\ sd' = sd
          /\ io'.rooms = io.rooms /\ io'.terminals = io.terminals
          /\ io'.emitted = << >> ]_vars

\* s2 was answered NotFound for a key under which s1 holds a running task.
C11_Witness ==
  /\ resp.op = "stop" /\ resp.code = 400 /\ resp.sessionId = "s2"
  /\ HasTask(sessionTasks, "s1", resp.taskId)
  /\ ~HasTask(sessionTasks, "s2", resp.taskId)
  /\ task[sessionTasks["s1"][resp.taskId]].isRunning
  /\ task[sessionTasks["s1"][resp.taskId]].browser = "open"

\* An error event of task i with the given text is among the events of the
\* step.
Emits(ios, i, text) ==
  \E n \in 1..Len(ios.emitted) :
    /\ ios.emitted[n].inst = i
    /\ ios.emitted[n].status = "error"
    /\ ios.emitted[n].text = text

C13_FatalInv ==
  \A i \in Inst :
    task[i].hist.fatal =>
      /\ task[i].pc \in { "clPage", "clBrowser", "done" }
      /\ task[i].pc = "done" =>
           /\ ~Registered(i)
           /\ ~task[i].hist.closeFailed =>
                task[i].page = "closed" /\ task[i].browser = "closed"

C14_SentEvent ==
  \A e \in Events :
    e.text = "sent" =>
      LET t == task[e.inst]
          N == Len(t.messages)
      IN  /\ e.status = "active"
          /\ e.totalSent >= 1 /\ e.totalSent = t.totalSent
          /\ e.totalMessages = N
          /\ e.currentIndex = e.totalSent % N
          /\ e.ref = Preview(t.messages[((e.totalSent - 1) % N) + 1])

\* The event after the 3rd send of the messages hi, t: sent count 3,
\* cursor 1, referring to hi.
C14_Witness ==
  \E e \in Events :
    /\ e.text = "sent" /\ e.totalSent = 3 /\ e.currentIndex = 1
    /\ task[e.inst].messages = << << "h", "i" >>, << "t" >> >>
    /\ e.ref = << "h", "i" >>

\* The awaits of init() and of start() before the thread page has loaded.
BeforeActive ==
  { "readFile", "removeFile", "launch", "newPage", "pageSetup", "gotoHome",
    "setCookies", "gotoThread" }

\* C15: no status event with state active is emitted for a task that is
\* still initializing or connecting.
C15_ActiveAfterNavigation ==
  \A e \in Events : e.status = "active" => task[e.inst].pc \notin BeforeActive

\* Every stop() called on task i has run to its end, so that 'stopped' has
\* been emitted for it.
StoppedEmitted(i) ==
  /\ task[i].hist.stops >= 1
  /\ stops[i].page = 0 /\ stops[i].browser = 0
  /\ ~(sd.pc \in { "page", "browser" } /\ sd.cur = i)

\* C16: after the stopped event of a task that was stopped once, while
\* running, and whose close() calls all succeeded, no step emits a status
\* event for the task or changes its sent count.
C16_StoppedIsFinal ==
  [][ \A i \in Inst :
        (/\ StoppedEmitted(i) /\ ~task[i].hist.closeFailed
         /\ task[i].hist.stoppedRunning /\ task[i].hist.stops = 1) =>
          /\ \A n \in 1..Len(io'.emitted) : io'.emitted[n].inst # i
          /\ task'[i].totalSent = task[i].totalSent ]_vars

\* C17: while a submit is in flight on a task that was running when stop was
\* requested, the task's page and browser are not closed.
C17_NoTeardownMidSubmit ==
  \A i \in Inst :
    (task[i].pc = "submit" /\ task[i].hist.stoppedRunning) =>
      PageUsable(task[i])

\* C18: a task that is executing, on which stop was never called and whose
\* cleanup was never entered, is registered.
C18_OwnEntryOnly ==
  \A i \in Inst :
    (/\ task[i].pc \notin { "none", "done" }
     /\ task[i].hist.stops = 0 /\ ~task[i].hist.errorCleanup) =>
      Registered(i)

\* C19: every task whose running flag is set is registered.
C19_RunningIsRegistered ==
  \A i \in Inst : task[i].isRunning => Registered(i)

\* C20: a task that has finished, with no stop() of it pending and no
\* close() call having thrown, holds no open browser.
C20_BrowserReleased ==
  \A i \in Inst :
    (/\ task[i].pc = "done" /\ ~task[i].hist.closeFailed
     /\ stops[i].page = 0 /\ stops[i].browser = 0) =>
      task[i].browser # "open"

====
